---- MODULE Spec2Model ----
(***************************************************************************)
(* A model of queue_check.py: the rqinfo report parser (parse_rqinfo), the *)
(* evaluator (evaluate_qdata) and the controller (run_code) with the       *)
(* history file it loads and saves.                                        *)
(*                                                                         *)
(* A Python str is a sequence of characters, each character a one-element  *)
(* name ("q", " ", ":", ...); the en dash of `failed: -` is the character  *)
(* EnDash, the line feed is LF.                                            *)
(***************************************************************************)
EXTENDS Integers, Sequences, FiniteSets, TLC

VARIABLES
    pc,                     \* where the controller, or the function under test, stands
    dir,                    \* ../previous_rqinfo_data/ exists
    file,                   \* << contents >> of previous_rqinfo_data.json, << >> without it
    expectations,           \* the module-level expectations dict (line 32)
    previous_rqinfo_data,   \* run_code's local of that name
    output,                 \* run_code's local: the raw rqinfo output
    data_dct,               \* run_code's local: the parsed snapshot
    evaluation_dct,         \* run_code's local: the three checks
    calls,                  \* the helpers run_code has called in this run, in order
    error,                  \* the exception that ended this run, or "none"
    run,                    \* number of the current invocation of the script
    last                    \* what the previous invocation left behind

vars == << pc, dir, file, expectations, previous_rqinfo_data, output, data_dct,
           evaluation_dct, calls, error, run, last >>

\* ------------------------------------------------------------------ bounds

MaxLines == 3        \* lines of a report handed to parse_rqinfo alone
MaxReportLines == 2  \* lines of a report rqinfo prints in a run of the script
MaxRuns == 2         \* invocations of the script in a row
MaxWorkers == 1      \* largest worker_count an expectation asks for
MaxCount == 2        \* largest failed count handed to evaluate_qdata alone
MaxLimit == 1        \* largest surge_failure_limit

\* ------------------------------------------------------- Python str helpers

LF == "\n"
EnDash == "EN DASH"
WhiteSpace == {" ", "\t", LF}
Digits == {"0", "1", "2", "3", "4", "5", "6", "7", "8", "9"}

DigitValue(c) ==
    CASE c = "0" -> 0 [] c = "1" -> 1 [] c = "2" -> 2 [] c = "3" -> 3
      [] c = "4" -> 4 [] c = "5" -> 5 [] c = "6" -> 6 [] c = "7" -> 7
      [] c = "8" -> 8 [] c = "9" -> 9

SetMin(S) == CHOOSE x \in S : \A y \in S : x <= y
SetMax(S) == CHOOSE x \in S : \A y \in S : x >= y
Range(s) == { s[i] : i \in 1..Len(s) }

\* str.strip(): without leading and trailing whitespace
str_strip(s) ==
    LET keep == { i \in 1..Len(s) : s[i] \notin WhiteSpace }
    IN  IF keep = {} THEN << >> ELSE SubSeq(s, SetMin(keep), SetMax(keep))

\* str.startswith(prefix)
str_startswith(s, prefix) ==
    /\ Len(s) >= Len(prefix)
    /\ SubSeq(s, 1, Len(prefix)) = prefix

\* str.split(sep) for a one-character sep: always at least one part
RECURSIVE str_split_sep(_, _)
str_split_sep(s, sep) ==
    LET at == { i \in 1..Len(s) : s[i] = sep }
    IN  IF at = {} THEN << s >>
        ELSE << SubSeq(s, 1, SetMin(at) - 1) >>
               \o str_split_sep(SubSeq(s, SetMin(at) + 1, Len(s)), sep)

\* str.split(): the maximal runs of non-whitespace, none for a blank string
RECURSIVE str_split(_)
str_split(s) ==
    LET ink == { i \in 1..Len(s) : s[i] \notin WhiteSpace }
    IN  IF ink = {} THEN << >>
        ELSE LET from == SetMin(ink)
                 gaps == { i \in from..Len(s) : s[i] \in WhiteSpace }
                 to   == IF gaps = {} THEN Len(s) ELSE SetMin(gaps) - 1
             IN  << SubSeq(s, from, to) >> \o str_split(SubSeq(s, to + 1, Len(s)))

\* the literals int() accepts: an optional sign, then digits, single
\* underscores allowed between digits
int_accepts(s) ==
    LET body == IF s # << >> /\ s[1] \in {"+", "-"} THEN Tail(s) ELSE s
    IN  /\ body # << >>
        /\ \A i \in 1..Len(body) : body[i] \in Digits \cup {"_"}
        /\ body[1] \in Digits
        /\ body[Len(body)] \in Digits
        /\ \A i \in 1..(Len(body) - 1) : ~(body[i] = "_" /\ body[i + 1] = "_")

RECURSIVE digits_value(_)
digits_value(ds) ==
    IF ds = << >> THEN 0
    ELSE 10 * digits_value(SubSeq(ds, 1, Len(ds) - 1)) + DigitValue(ds[Len(ds)])

\* int(s) for an accepted literal
int_value(s) ==
    LET body   == IF s[1] \in {"+", "-"} THEN Tail(s) ELSE s
        digits == SelectSeq(body, LAMBDA c : c \in Digits)
    IN  IF s[1] = "-" THEN 0 - digits_value(digits) ELSE digits_value(digits)

\* ------------------------------------------------------------ parse_rqinfo

W_queue == << "q", "u", "e", "u", "e" >>
W_failed == << "f", "a", "i", "l", "e", "d" >>

EmptyDict == << >>   \* a dict with no key: the function with the empty domain
DictPut(d, k, v) == [ x \in (DOMAIN d) \cup {k} |-> IF x = k THEN v ELSE d[x] ]

\* line 119: the dict parse_rqinfo starts from
parse_init == [ failed_count |-> 0, queues |-> << >>, workers_by_queue |-> EmptyDict ]

Raised(e) == [ ok |-> FALSE, error |-> e ]
Returned(v) == [ ok |-> TRUE, value |-> v ]

\* parse_queue_line with the count never converted
parse_queue_line_unchecked(out, line) ==
    LET tokens == str_split(line)
    IN  IF Len(tokens) # 3 THEN Raised("ValueError")
        ELSE Returned([ out EXCEPT !.queues = Append(@, tokens[2]) ])

\* lines 126-130: a line that starts with `queue`
parse_queue_line(out, line) ==
    LET tokens == str_split(line)
    IN  IF Len(tokens) # 3 THEN Raised("ValueError")
        ELSE LET queue_name == tokens[2]
                 count      == tokens[3]
                 appended   == [ out EXCEPT !.queues = Append(@, queue_name) ]
             IN  IF queue_name = W_failed
                 THEN IF int_accepts(count)
                      THEN Returned([ appended EXCEPT !.failed_count = int_value(count) ])
                      ELSE Raised("ValueError")
                 ELSE Returned(appended)

\* line 137: the first token of every comma-separated part
worker_names_of(worker_data) ==
    LET parts == str_split_sep(worker_data, ",")
    IN  IF \E i \in 1..Len(parts) : str_split(parts[i]) = << >>
        THEN Raised("IndexError")
        ELSE Returned([ i \in 1..Len(parts) |-> str_split(parts[i])[1] ])

\* parse_worker_line with the assignment of line 138 inside the `if` of line 136
parse_worker_line_indented(out, line) ==
    LET halves == str_split_sep(line, ":")
    IN  IF Len(halves) # 2 THEN Raised("ValueError")
        ELSE LET queue_name  == halves[1]
                 worker_data == str_strip(halves[2])
                 names       == worker_names_of(worker_data)
             IN  IF worker_data = << EnDash >> THEN Returned(out)
                 ELSE IF ~names.ok THEN names
                 ELSE Returned([ out EXCEPT !.workers_by_queue =
                                     DictPut(@, queue_name, names.value) ])

\* lines 131-138: any other line
parse_worker_line(out, line) ==
    LET halves == str_split_sep(line, ":")
    IN  IF Len(halves) # 2 THEN Raised("ValueError")
        ELSE LET queue_name  == halves[1]
                 worker_data == str_strip(halves[2])
                 names       == IF worker_data # << EnDash >>
                                THEN worker_names_of(worker_data)
                                ELSE Returned(<< >>)
             IN  IF ~names.ok THEN names
                 ELSE Returned([ out EXCEPT !.workers_by_queue =
                                     DictPut(@, queue_name, names.value) ])

\* lines 121-138: the body of the loop, for one line
parse_line(out, raw_line) ==
    LET line == str_strip(raw_line)
    IN  IF line = << >> THEN Returned(out)
        ELSE IF str_startswith(line, W_queue) THEN parse_queue_line(out, line)
        ELSE parse_worker_line(out, line)

\* lines 120-138: the loop, from line i on
RECURSIVE parse_loop(_, _, _)
parse_loop(out, lines, i) ==
    IF i > Len(lines) THEN Returned(out)
    ELSE LET step == parse_line(out, lines[i])
         IN  IF step.ok THEN parse_loop(step.value, lines, i + 1) ELSE step

\* lines 93-140
parse_rqinfo(rq_output) ==
    parse_loop(parse_init, str_split_sep(rq_output, LF), 1)

\* ----------------------------------------------------------- evaluate_qdata

\* line 190
checks_init == [ queue_check |-> "init", worker_check |-> "init",
                 failure_queue_check |-> "init" ]

\* lines 193-200: the loop over expected_queues, from entry i on
RECURSIVE queue_check_loop(_, _, _)
queue_check_loop(expected_queues, queues, i) ==
    IF i > Len(expected_queues) THEN "ok"
    ELSE IF expected_queues[i] \notin Range(queues) THEN "FAIL"
    ELSE queue_check_loop(expected_queues, queues, i + 1)

queue_check(expected, data) ==
    queue_check_loop(expected.expected_queues, data.queues, 1)

\* lines 204-219: the loop over expected_workers, from entry i on
RECURSIVE worker_check_loop(_, _, _)
worker_check_loop(expected_workers, workers_by_queue, i) ==
    IF i > Len(expected_workers) THEN "ok"
    ELSE LET queue        == expected_workers[i].queue
             worker_count == expected_workers[i].worker_count
         IN  IF queue \notin DOMAIN workers_by_queue THEN "FAIL"
             ELSE IF Len(workers_by_queue[queue]) # worker_count THEN "FAIL"
             ELSE worker_check_loop(expected_workers, workers_by_queue, i + 1)

\* worker_check with `<` for `!=` on line 213
worker_check_at_least(expected, data) ==
    IF \E i \in 1..Len(expected.expected_workers) :
         LET queue == expected.expected_workers[i].queue
         IN  \/ queue \notin DOMAIN data.workers_by_queue
             \/ Len(data.workers_by_queue[queue]) < expected.expected_workers[i].worker_count
    THEN "FAIL" ELSE "ok"

worker_check(expected, data) ==
    worker_check_loop(expected.expected_workers, data.workers_by_queue, 1)

\* failure_queue_check with `>=` for `>` on line 226
failure_queue_check_strict(previous_failed_count, expected, data) ==
    IF data.failed_count - previous_failed_count >= expected.surge_failure_limit
    THEN "FAIL" ELSE "ok"

\* lines 222-230
failure_queue_check(previous_failed_count, expected, data) ==
    LET failure_increase    == data.failed_count - previous_failed_count
        surge_failure_limit == expected.surge_failure_limit
    IN  IF failure_increase > surge_failure_limit THEN "FAIL" ELSE "ok"

\* evaluate_qdata returning as soon as the queue check fails
evaluate_qdata_returning_early(previous_failed_count, expected, data) ==
    IF queue_check(expected, data) = "FAIL"
    THEN [ checks_init EXCEPT !.queue_check = "FAIL" ]
    ELSE [ queue_check         |-> "ok",
           worker_check        |-> worker_check(expected, data),
           failure_queue_check |-> failure_queue_check(previous_failed_count, expected, data) ]

\* lines 166-232
evaluate_qdata(previous_failed_count, expected, data) ==
    LET after_queues  == [ checks_init EXCEPT !.queue_check = queue_check(expected, data) ]
        after_workers == [ after_queues EXCEPT !.worker_check = worker_check(expected, data) ]
    IN  [ after_workers EXCEPT !.failure_queue_check =
              failure_queue_check(previous_failed_count, expected, data) ]

\* ------------------------------------------------------------------ inputs

SP == << " " >>
W_q1 == << "q", "1" >>
W_q2 == << "q", "2" >>
W_w1 == << "w", "1" >>
W_w2 == << "w", "2" >>
W_idle == << "(", "i", "d", "l", "e", ")" >>

QueueLine(name, count) == W_queue \o SP \o name \o SP \o count
WorkerLine(name, worker_data) == name \o << ":" >> \o SP \o worker_data

\* the lines the reports handed to parse_rqinfo alone are made of
SampleLines ==
    { QueueLine(W_q1, << "0" >>),
      QueueLine(W_failed, << "1", "2" >>),
      QueueLine(W_failed, << "x" >>),
      QueueLine(W_q2, << "x" >>),
      WorkerLine(W_q1, W_w1 \o SP \o W_idle \o << "," >> \o SP \o W_w2 \o SP \o W_idle),
      WorkerLine(W_failed, << EnDash >>),
      SP,
      W_q2 \o << ":" >>,
      WorkerLine(W_queue \o << "d" >>, W_w1 \o SP \o W_idle),
      << "g", "a", "r", "b", "a", "g", "e" >> }

\* the lines rqinfo prints in the runs of the script
RunLines ==
    { QueueLine(W_failed, << "2" >>),
      QueueLine(W_failed, << "x" >>),
      QueueLine(W_q1, << "x" >>),
      WorkerLine(W_q1, W_w1 \o SP \o W_idle) }

SeqsUpTo(S, n) == UNION { [ 1..k -> S ] : k \in 0..n }

\* a report: every line followed by a line feed, as rqinfo prints it
RECURSIVE Report(_)
Report(lines) ==
    IF lines = << >> THEN << >> ELSE Head(lines) \o << LF >> \o Report(Tail(lines))

SampleReports == { Report(ls) : ls \in SeqsUpTo(SampleLines, MaxLines) }
RunReports == { Report(ls) : ls \in SeqsUpTo(RunLines, MaxReportLines) }

QueueNames == { W_q1, W_q2 }
QueueLists == { << >>, << W_q1 >>, << W_q2 >>, << W_q1, W_q2 >> }
WorkerLists == { [ i \in 1..n |-> W_w1 ] : n \in 0..(MaxWorkers + 1) }

SampleExpectations ==
    [ expected_queues     : QueueLists,
      expected_workers    : SeqsUpTo([ queue : QueueNames, worker_count : 0..MaxWorkers ], 2),
      surge_failure_limit : 0..MaxLimit ]

SampleSnapshots ==
    [ failed_count     : 0..MaxCount,
      queues           : QueueLists,
      workers_by_queue : UNION { [ S -> WorkerLists ] : S \in SUBSET QueueNames } ]

\* the expectations the script runs under
RunExpectations ==
    { [ expected_queues     |-> << W_q1 >>,
        expected_workers    |-> << [ queue |-> W_q1, worker_count |-> 1 ] >>,
        surge_failure_limit |-> 1 ],
      [ expected_queues     |-> << >>,
        expected_workers    |-> << >>,
        surge_failure_limit |-> 0 ] }

\* what an earlier run can have left in the history file
InitialHistory ==
    { parse_rqinfo(Report(<< QueueLine(W_failed, count) >>)).value :
        count \in { << "0" >>, << "2" >> } }

\* ------------------------------------------------------------------ run_code

\* run_code with its steps in the order report, parse, load, evaluate, save, send
run_code_steps_reordered ==
    << "get_rqinfo", "parse_rqinfo", "load_previous_rqinfo_data",
       "evaluate_qdata", "save_rqinfo_data", "send_if_necessary" >>

\* lines 44-63: the steps of run_code, in the order of the code
run_code_steps ==
    << "load_previous_rqinfo_data", "get_rqinfo", "parse_rqinfo",
       "save_rqinfo_data", "evaluate_qdata", "send_if_necessary" >>

Returning == Len(run_code_steps) + 1

\* run_code stands before `step`, no exception raised
At(step) ==
    /\ error = "none"
    /\ pc \in 1..Len(run_code_steps)
    /\ run_code_steps[pc] = step

StepIndex(step) == CHOOSE i \in 1..Len(run_code_steps) : run_code_steps[i] = step

\* line 57: the record run_code compares the evaluation with
all_ok == [ queue_check |-> "ok", worker_check |-> "ok", failure_queue_check |-> "ok" ]

\* the comparison of line 57 looking at the queue check alone
email_needed_for_queues == evaluation_dct[1].queue_check # "ok"

\* lines 57-60: an email goes out
email_needed == evaluation_dct[1] # all_ok

\* line 54 reading the history file again, after save_rqinfo_data has written it
last_failed_count_reread == file[1].failed_count

\* line 54
last_failed_count == previous_rqinfo_data[1].failed_count

\* lines 44-45, 71-78: open() raises FileNotFoundError when there is no file
LoadPrevious ==
    /\ At("load_previous_rqinfo_data")
    /\ calls' = Append(calls, "load_previous_rqinfo_data")
    /\ IF file = << >>
       THEN /\ error' = "FileNotFoundError"
            /\ UNCHANGED << pc, previous_rqinfo_data >>
       ELSE /\ previous_rqinfo_data' = file
            /\ pc' = pc + 1
            /\ error' = error
    /\ UNCHANGED << dir, file, expectations, output, data_dct, evaluation_dct, run, last >>

\* lines 47-48, 81-90
GetRqinfo ==
    /\ At("get_rqinfo")
    /\ calls' = Append(calls, "get_rqinfo")
    /\ \E report \in RunReports : output' = << report >>
    /\ pc' = pc + 1
    /\ UNCHANGED << dir, file, expectations, previous_rqinfo_data, data_dct,
                    evaluation_dct, error, run, last >>

\* lines 50-51
ParseRqinfo ==
    /\ At("parse_rqinfo")
    /\ calls' = Append(calls, "parse_rqinfo")
    /\ LET result == parse_rqinfo(output[1])
       IN  IF result.ok
           THEN /\ data_dct' = << result.value >>
                /\ pc' = pc + 1
                /\ error' = error
           ELSE /\ error' = result.error
                /\ UNCHANGED << pc, data_dct >>
    /\ UNCHANGED << dir, file, expectations, previous_rqinfo_data, output,
                    evaluation_dct, run, last >>

\* save_rqinfo_data writing nothing
save_rqinfo_data_dropped(data, fault) ==
    [ raised |-> fault, dir |-> dir, file |-> file ]

\* lines 144-163: the file after save_rqinfo_data, or the exception it raises.
\* open(.., 'w') raises FileNotFoundError when the directory is missing, and
\* the handler makes the directory and writes; any other fault is re-raised.
save_rqinfo_data(data, fault) ==
    IF fault THEN [ raised |-> TRUE, dir |-> dir, file |-> file ]
    ELSE IF dir THEN [ raised |-> FALSE, dir |-> dir, file |-> << data >> ]   \* lines 152-153
    ELSE [ raised |-> FALSE, dir |-> TRUE, file |-> << data >> ]              \* lines 155-158

\* line 52
SaveRqinfoData ==
    /\ At("save_rqinfo_data")
    /\ calls' = Append(calls, "save_rqinfo_data")
    /\ \E fault \in BOOLEAN :
         LET saved == save_rqinfo_data(data_dct[1], fault)
         IN  /\ dir' = saved.dir
             /\ file' = saved.file
             /\ IF saved.raised
                THEN error' = "Exception" /\ pc' = pc
                ELSE error' = error /\ pc' = pc + 1
    /\ UNCHANGED << expectations, previous_rqinfo_data, output, data_dct,
                    evaluation_dct, run, last >>

\* lines 54-56
EvaluateQdata ==
    /\ At("evaluate_qdata")
    /\ calls' = Append(calls, "evaluate_qdata")
    /\ evaluation_dct' = << evaluate_qdata(last_failed_count, expectations, data_dct[1]) >>
    /\ pc' = pc + 1
    /\ UNCHANGED << dir, file, expectations, previous_rqinfo_data, output, data_dct,
                    error, run, last >>

\* lines 57-65: send_email raises when the mail cannot be sent (lines 283-286)
SendIfNecessary ==
    /\ At("send_if_necessary")
    /\ IF email_needed
       THEN /\ calls' = calls \o << "build_email_message", "send_email" >>
            /\ \E fault \in BOOLEAN :
                 IF fault
                 THEN error' = "Exception" /\ pc' = pc
                 ELSE error' = error /\ pc' = pc + 1
       ELSE /\ pc' = pc + 1
            /\ UNCHANGED << calls, error >>
    /\ UNCHANGED << dir, file, expectations, previous_rqinfo_data, output, data_dct,
                    evaluation_dct, run, last >>

\* what a run leaves behind for the next: its report, snapshot and evaluation,
\* the exception that ended it, and the history file as it left it
left_behind ==
    [ file |-> file, output |-> output, data_dct |-> data_dct,
      evaluation_dct |-> evaluation_dct, error |-> error ]

\* lines 292-293: the scheduler starts the script again
RunAgain ==
    /\ error # "none" \/ pc = Returning
    /\ run < MaxRuns
    /\ run' = run + 1
    /\ last' = left_behind
    /\ pc' = 1
    /\ previous_rqinfo_data' = << >>
    /\ output' = << >>
    /\ data_dct' = << >>
    /\ evaluation_dct' = << >>
    /\ calls' = << >>
    /\ error' = "none"
    /\ UNCHANGED << dir, file, expectations >>

Fresh ==
    /\ previous_rqinfo_data = << >>
    /\ output = << >>
    /\ data_dct = << >>
    /\ evaluation_dct = << >>
    /\ calls = << >>
    /\ error = "none"
    /\ run = 1

Init ==
    /\ Fresh
    /\ pc = 1
    /\ expectations \in RunExpectations
    /\ \/ dir \in BOOLEAN /\ file = << >>
       \/ dir = TRUE /\ file \in { << h >> : h \in InitialHistory }
    /\ last = [ left_behind EXCEPT !.file = file ]

Next ==
    \/ LoadPrevious
    \/ GetRqinfo
    \/ ParseRqinfo
    \/ SaveRqinfoData
    \/ EvaluateQdata
    \/ SendIfNecessary
    \/ RunAgain

Spec == Init /\ [][Next]_vars

\* --------------------------------------------- the functions on their own

\* parse_rqinfo on every sample report
InitParse ==
    /\ pc = StepIndex("parse_rqinfo")
    /\ dir = TRUE
    /\ file \in { << h >> : h \in InitialHistory }
    /\ expectations \in RunExpectations
    /\ previous_rqinfo_data = file
    /\ output \in { << report >> : report \in SampleReports }
    /\ data_dct = << >>
    /\ evaluation_dct = << >>
    /\ calls = << "load_previous_rqinfo_data", "get_rqinfo" >>
    /\ error = "none"
    /\ run = 1
    /\ last = [ left_behind EXCEPT !.output = << >> ]

SpecParse == InitParse /\ [][ParseRqinfo]_vars

\* evaluate_qdata on every sample of expectations, snapshot and previous count
InitEval ==
    /\ pc = StepIndex("evaluate_qdata")
    /\ dir = TRUE
    /\ expectations \in SampleExpectations
    /\ data_dct \in { << snapshot >> : snapshot \in SampleSnapshots }
    /\ file = data_dct
    /\ previous_rqinfo_data \in
         { << [ parse_init EXCEPT !.failed_count = n ] >> : n \in 0..MaxCount }
    /\ output = << >>
    /\ evaluation_dct = << >>
    /\ calls = << >>
    /\ error = "none"
    /\ run = 1
    /\ last = [ left_behind EXCEPT !.file = previous_rqinfo_data ]

SpecEval == InitEval /\ [][EvaluateQdata]_vars

\* ================================================================== claims

Called(helper) == helper \in Range(calls)
TimesCalled(helper) == Cardinality({ i \in 1..Len(calls) : calls[i] = helper })
IsPrefix(a, b) == Len(a) <= Len(b) /\ SubSeq(b, 1, Len(a)) = a

\* the run is over: run_code returned or an exception left it
RunOver == pc = Returning \/ error # "none"

Evaluated == evaluation_dct # << >>
Snapshot == data_dct[1]
Checks == evaluation_dct[1]
Increase == Snapshot.failed_count - previous_rqinfo_data[1].failed_count

\* ------------------------------------------------------------- C1 (SpecEval)

\* C1: failure_queue_check is ok exactly when the failed count rose by no
\* more than surge_failure_limit since the previous run, and FAIL otherwise;
\* a rise equal to the limit is ok, a rise of limit + 1 is FAIL, and a flat
\* or shrinking count is ok.
C1_SurgeLimit ==
    Evaluated =>
        /\ Checks.failure_queue_check \in { "ok", "FAIL" }
        /\ Checks.failure_queue_check = "ok" <=> Increase <= expectations.surge_failure_limit
        /\ Increase = expectations.surge_failure_limit => Checks.failure_queue_check = "ok"
        /\ Increase = expectations.surge_failure_limit + 1 => Checks.failure_queue_check = "FAIL"
        /\ Increase <= 0 => Checks.failure_queue_check = "ok"

C1_Witness ==
    /\ Evaluated
    /\ expectations.surge_failure_limit > 0
    /\ Increase = expectations.surge_failure_limit
    /\ Checks.failure_queue_check = "ok"

\* ------------------------------------------------------------- C2 (SpecEval)

WorkersAsExpected(entry) ==
    /\ entry.queue \in DOMAIN Snapshot.workers_by_queue
    /\ Len(Snapshot.workers_by_queue[entry.queue]) = entry.worker_count

\* the queue of the entry is missing, or has one worker too few or too many
OffByOne(entry) ==
    \/ entry.queue \notin DOMAIN Snapshot.workers_by_queue
    \/ Len(Snapshot.workers_by_queue[entry.queue]) = entry.worker_count - 1
    \/ Len(Snapshot.workers_by_queue[entry.queue]) = entry.worker_count + 1

\* C2: worker_check is ok exactly when every entry of expected_workers names
\* a queue that is a key of workers_by_queue with exactly worker_count
\* workers; a missing queue, a worker too few or a worker too many is FAIL,
\* and nothing but the listed queues enters the result.
C2_ExactWorkerCount ==
    Evaluated =>
        /\ Checks.worker_check \in { "ok", "FAIL" }
        /\ Checks.worker_check = "ok" <=>
               \A entry \in Range(expectations.expected_workers) : WorkersAsExpected(entry)
        /\ \A entry \in Range(expectations.expected_workers) :
               OffByOne(entry) => Checks.worker_check = "FAIL"

\* one worker too many on the only listed queue, and an unlisted queue beside it
C2_Witness ==
    /\ Evaluated
    /\ Len(expectations.expected_workers) = 1
    /\ LET entry == expectations.expected_workers[1]
       IN  /\ entry.queue \in DOMAIN Snapshot.workers_by_queue
           /\ Len(Snapshot.workers_by_queue[entry.queue]) = entry.worker_count + 1
           /\ DOMAIN Snapshot.workers_by_queue # { entry.queue }
    /\ Checks.worker_check = "FAIL"

\* ------------------------------------------------------------- C3 (SpecEval)

\* C3: queue_check is ok exactly when every expected queue is in the
\* snapshot's queues, whatever else the snapshot lists; and when it is FAIL
\* the worker check and the failure check are still decided, each by its
\* own rule.
C3_QueueCheckAlone ==
    Evaluated =>
        /\ Checks.queue_check \in { "ok", "FAIL" }
        /\ Checks.queue_check = "ok" <=>
               Range(expectations.expected_queues) \subseteq Range(Snapshot.queues)
        /\ Checks.queue_check = "FAIL" =>
               /\ Checks.worker_check =
                      IF \A entry \in Range(expectations.expected_workers) :
                             WorkersAsExpected(entry)
                      THEN "ok" ELSE "FAIL"
               /\ Checks.failure_queue_check =
                      IF Increase > expectations.surge_failure_limit THEN "FAIL" ELSE "ok"

\* the queue check fails alone, and a queue nobody expects is listed
C3_Witness ==
    /\ Evaluated
    /\ Checks = [ queue_check |-> "FAIL", worker_check |-> "ok", failure_queue_check |-> "ok" ]
    /\ expectations.expected_workers # << >>
    /\ ~(Range(Snapshot.queues) \subseteq Range(expectations.expected_queues))

\* ----------------------------------------------------------------- C4 (Spec)

\* C4: a run that reaches the evaluation calls send_email once when a check
\* is not ok and never when all three are ok; a run that does not reach it
\* calls send_email never.
C4_EmailIffNotAllOk ==
    /\ ~Evaluated => TimesCalled("send_email") = 0
    /\ Evaluated /\ RunOver =>
           TimesCalled("send_email") =
               IF /\ Checks.queue_check = "ok"
                  /\ Checks.worker_check = "ok"
                  /\ Checks.failure_queue_check = "ok"
               THEN 0 ELSE 1

\* only the failure check fails, and one email went out
C4_Witness ==
    /\ Evaluated
    /\ pc = Returning
    /\ Checks = [ queue_check |-> "ok", worker_check |-> "ok", failure_queue_check |-> "FAIL" ]
    /\ TimesCalled("send_email") = 1

\* ----------------------------------------------------------------- C5 (Spec)

\* C5: with no history file when the run starts, loading the history is no
\* error: it gives failed_count 0 and the run goes on.
C5_MissingHistoryIsZero ==
    last.file = << >> /\ Called("load_previous_rqinfo_data") =>
        /\ error = "none"
        /\ previous_rqinfo_data # << >>
        /\ previous_rqinfo_data[1].failed_count = 0

\* ----------------------------------------------------------------- C6 (Spec)

ReportLines ==
    LET lines == str_split_sep(output[1], LF)
    IN  { str_strip(lines[i]) : i \in 1..Len(lines) } \ { << >> }

\* `queue <name> <count>` with a count of digits
IsQueueLine(line) ==
    LET tokens == str_split(line)
    IN  /\ Len(tokens) = 3
        /\ tokens[1] = W_queue
        /\ \A i \in 1..Len(tokens[3]) : tokens[3][i] \in Digits

Colons(line) == { i \in 1..Len(line) : line[i] = ":" }

\* `<name>: <worker-list>`, the list an en dash or worker descriptors
\* between commas; a line that begins with `queue` is never one
IsWorkerLine(line) ==
    /\ ~str_startswith(line, W_queue)
    /\ Cardinality(Colons(line)) = 1
    /\ LET colon  == CHOOSE i \in Colons(line) : TRUE
           name   == SubSeq(line, 1, colon - 1)
           rest   == str_strip(SubSeq(line, colon + 1, Len(line)))
           commas == { i \in 1..Len(rest) : rest[i] = "," }
           cuts   == {0} \cup commas \cup { Len(rest) + 1 }
       IN  /\ name # << >>
           /\ \/ rest = << EnDash >>
              \/ \A a \in cuts : a <= Len(rest) =>
                     LET b == SetMin({ c \in cuts : c > a })
                     IN  \E i \in (a + 1)..(b - 1) : rest[i] \notin WhiteSpace

WellFormed == \A line \in ReportLines : IsQueueLine(line) \/ IsWorkerLine(line)

QueueLineNames == { str_split(line)[2] : line \in { l \in ReportLines : IsQueueLine(l) } }
WorkerLineNames ==
    { SubSeq(line, 1, SetMin(Colons(line)) - 1) :
        line \in { l \in ReportLines : IsWorkerLine(l) } }

Parsed == Called("parse_rqinfo")

\* C7 as claimed: parse_rqinfo returns a snapshot for every well-formed
\* report, and the names in queues are the keys of workers_by_queue.
C7_QueuesEqualWorkerKeys ==
    Parsed /\ WellFormed =>
        /\ error = "none"
        /\ data_dct # << >>
        /\ Range(Snapshot.queues) = DOMAIN Snapshot.workers_by_queue

\* C7 as amended: parse_rqinfo returns a snapshot for every well-formed
\* report; queues holds the names of its queue lines and workers_by_queue
\* has the names of its worker lines as keys, so the two agree exactly when
\* the report names the same queues in both kinds of line.
C7_NamesFollowLines ==
    Parsed /\ WellFormed =>
        /\ error = "none"
        /\ data_dct # << >>
        /\ Range(Snapshot.queues) = QueueLineNames
        /\ DOMAIN Snapshot.workers_by_queue = WorkerLineNames
        /\ Range(Snapshot.queues) = DOMAIN Snapshot.workers_by_queue
               <=> QueueLineNames = WorkerLineNames

\* the failed queue with its count line and its worker line without workers
C7_Witness ==
    /\ Parsed
    /\ WellFormed
    /\ data_dct # << >>
    /\ Snapshot.queues = << W_failed >>
    /\ DOMAIN Snapshot.workers_by_queue = { W_failed }
    /\ Snapshot.workers_by_queue[W_failed] = << >>

\* ----------------------------------------------------------------- C8 (Spec)

\* this run and the one before both evaluated, on the same report
SameReportTwice ==
    /\ run > 1
    /\ Evaluated
    /\ last.evaluation_dct # << >>
    /\ output = last.output

\* C8 as claimed: the second of two runs on the same report leaves the
\* history file as the first left it and evaluates as the first did.
C8_SecondRunRepeatsFirst ==
    SameReportTwice =>
        /\ file = last.file
        /\ evaluation_dct = last.evaluation_dct

\* C8 as amended: the second of two runs on the same report leaves the
\* history file as the first left it and repeats the first run's queue and
\* worker checks; its failure check is ok, the count not having risen,
\* whatever the first run's failure check was.
C8_SecondRunSeesNoRise ==
    SameReportTwice =>
        /\ file = last.file
        /\ Checks.queue_check = last.evaluation_dct[1].queue_check
        /\ Checks.worker_check = last.evaluation_dct[1].worker_check
        /\ Checks.failure_queue_check = "ok"

\* the first run failed the failure check, the second passes it
C8_Witness ==
    /\ SameReportTwice
    /\ last.evaluation_dct[1].failure_queue_check = "FAIL"
    /\ Checks.failure_queue_check = "ok"

\* ----------------------------------------------------------------- C9 (Spec)

\* the `queue <name> <count>` lines whose count int() does not accept
BadCountLines ==
    { line \in ReportLines :
        /\ str_startswith(line, W_queue)
        /\ Len(str_split(line)) = 3
        /\ ~int_accepts(str_split(line)[3]) }

\* parse_rqinfo raised and the run ended there: history untouched, nothing
\* evaluated, no email
AbortedInParse ==
    /\ error # "none"
    /\ data_dct = << >>
    /\ file = last.file
    /\ ~Called("save_rqinfo_data")
    /\ ~Evaluated
    /\ ~Called("send_email")

\* C9 as claimed: a queue line with a count that is no integer, whatever the
\* queue, makes parse_rqinfo raise and ends the run before the history is
\* written, anything is evaluated or any email is sent.
C9_AnyBadCountAborts ==
    Parsed /\ BadCountLines # {} => AbortedInParse

\* C9 as amended: the same of the `queue failed <count>` line only; the
\* count of any other queue is never read.
C9_BadFailedCountAborts ==
    Parsed /\ (\E line \in BadCountLines : str_split(line)[2] = W_failed) => AbortedInParse

\* a history file exists, the report's failed count is no integer
C9_Witness ==
    /\ Parsed
    /\ \E line \in BadCountLines : str_split(line)[2] = W_failed
    /\ error = "ValueError"
    /\ file # << >>
    /\ RunOver

\* ---------------------------------------------------------------- C10 (Spec)

Sending == << "build_email_message", "send_email" >>

ClaimedOrder ==
    << "get_rqinfo", "parse_rqinfo", "load_previous_rqinfo_data",
       "evaluate_qdata", "save_rqinfo_data" >>

CodeOrder ==
    << "load_previous_rqinfo_data", "get_rqinfo", "parse_rqinfo",
       "save_rqinfo_data", "evaluate_qdata" >>

\* C10 as claimed: the steps of a run come in the order report, parse,
\* history load, evaluation, history save, send.
C10_ClaimedOrder == IsPrefix(calls, ClaimedOrder \o Sending)

\* C10 as amended: the steps of a run come in the order history load,
\* report, parse, history save, evaluation, send; the load precedes the
\* report and the save precedes the evaluation.
C10_CodeOrder == IsPrefix(calls, CodeOrder \o Sending)

\* a run that went through every step and sent its email
C10_Witness ==
    /\ calls = CodeOrder \o Sending
    /\ pc = Returning

====
